---------------------------- MODULE Spec2Model ----------------------------
(***************************************************************************)
(* Model of the Bid.cars watcher: run_check of src/flask_app.py (the Lexus *)
(* NX profile) and of src/toyota.py (the Toyota profile), the Upstash      *)
(* Redis store both talk to, and the Telegram transport.                   *)
(*                                                                         *)
(* One action is one network round trip of run_check together with the    *)
(* local computation that follows it, up to the next round trip.  Every    *)
(* round trip may fail; a failing store call or fetch raises and aborts    *)
(* the run (run_check re-raises), a failing delivery returns False.        *)
(***************************************************************************)
EXTENDS Integers, Sequences, FiniteSets, TLC

(***************************************************************************)
(* Bounds of the model.                                                    *)
(***************************************************************************)
\* Longest snapshot the source returns in the model.
MaxLen == 2
\* The count of successful deliveries per lot saturates here.
MaxCount == 2
\* Runs started in the specification of overlapping runs.
MaxOverlapRuns == 2
\* Longest display name handed to format_listing_message in the model.
MaxNameLen == 3

(***************************************************************************)
(* Values.                                                                 *)
(***************************************************************************)
\* The two programs: flask_app.py is the Lexus NX watcher, toyota.py the Toyota one.
Profiles == {"lexus", "toyota"}

\* Non-empty lot identifiers.
Lots == {"A", "B"}

\* listing.get('lot') when the key is missing (Python's None).
None == "None"

\* What listing.get('lot') can be: missing, the empty string, or an identifier.
LotValues == Lots \cup {None, ""}

\* One other attribute of a listing, which may change between runs.
Statuses == {"Fast-buy", "Sold"}

Listings == [lot : LotValues, search_status : Statuses]

\* Python truthiness of listing.get('lot').
Truthy(v) == v # None /\ v # ""

\* The source assigns one lot identifier to one vehicle: a snapshot never
\* holds two listings with the same non-empty lot.
UniqueLots(ls) ==
    \A i, j \in DOMAIN ls :
        (i # j /\ Truthy(ls[i].lot)) => ls[i].lot # ls[j].lot

Snapshots ==
    { ls \in UNION { [1..n -> Listings] : n \in 0..MaxLen } : UniqueLots(ls) }

\* Outcomes of one store round trip (UpstashRedis._request): the command is
\* applied and answered; it fails before being applied (transport failure,
\* non-success status, embedded error field); or it is applied and the answer
\* is lost (timeout=10 expires), which raises in the client all the same.
StoreOutcomes == {"ok", "error", "lost"}
ReadOutcomes == {"ok", "error"}

VARIABLES
    deployed,      \* the profiles that run against the store
    seen,          \* store: the set under STORAGE_SEEN_KEY
    initFlag,      \* store: whether STORAGE_INIT_KEY exists
    pc,            \* position of the current run of run_check
    prof,          \* the profile whose run_check is running
    dry_run,       \* run_check's argument
    listings,      \* run_check local
    seen_lots,     \* run_check local
    new_listings,  \* run_check local
    idx,           \* position of the for loop in new_listings
    sent,          \* run_check local
    result,        \* what the run returned, or that it raised
    delivered,     \* history: successful deliveries per lot, saturating
    attempts,      \* history: delivery attempts of the current run, in order
    sadds,         \* history: SADD commands issued by the current run
    seen0,         \* history: the seen-set when the current run started
    flag0,         \* history: the init-flag when the current run started
    failedLast,    \* history: lots whose delivery failed in the last notifying run
    bootstrapped,  \* history: the profiles whose own bootstrap set the init-flag
    addedBy,       \* history: per profile, the lots its runs added to the seen-set
    late,          \* history: unseen lots a bootstrap fetched after the init-flag was set
    fetch_failed,  \* history: fetch_listings raised in the current run
    parked,        \* the other run of run_check in progress, when two overlap
    budget,        \* runs that may still start (-1: no limit)
    env,           \* the environment variables that are set when a program starts
    entry,         \* per program, how far its __main__ got
    listing_in,    \* the listing handed to format_listing_message
    message        \* what format_listing_message made of it

vars == << deployed, seen, initFlag, pc, prof, dry_run, listings, seen_lots,
           new_listings, idx, sent, result, delivered, attempts, sadds,
           seen0, flag0, failedLast, bootstrapped, addedBy, late, fetch_failed,
           parked,
           budget, env, entry, listing_in, message >>

\* What run_check never touches: the run it overlaps with, the process
\* start and the formatter's input and output.
apart == << parked, env, entry, listing_in, message >>

store == << seen, initFlag >>
locals == << listings, seen_lots, new_listings, idx, sent >>
history == << delivered, attempts, sadds, seen0, flag0, failedLast, bootstrapped,
              addedBy, late >>


(***************************************************************************)
(* Pure parts of the code.                                                 *)
(***************************************************************************)
\* What the browser session hands to fetch_listings: the navigation may time
\* out; otherwise there is a status and a body, which is not JSON, or JSON
\* that is empty, or JSON without "data", or JSON with the listing array.
FetchResponses ==
    { [browser |-> "ok", status |-> 200, json |-> "data", data |-> ls] :
          ls \in Snapshots }
    \cup { [browser |-> "timeout", status |-> 200, json |-> "data", data |-> << >>],
           [browser |-> "ok", status |-> 403, json |-> "invalid", data |-> << >>],
           [browser |-> "ok", status |-> 200, json |-> "invalid", data |-> << >>],
           [browser |-> "ok", status |-> 200, json |-> "empty", data |-> << >>],
           [browser |-> "ok", status |-> 200, json |-> "no_data", data |-> << >>] }

\* fetch_listings: raises on a navigation failure, a status other than 200, a
\* body json.loads rejects, an empty payload or one without "data"; otherwise
\* returns payload["data"].
fetch_listings(r) ==
    IF r.browser # "ok" THEN [raised |-> TRUE, data |-> << >>]
    ELSE IF r.status # 200 THEN [raised |-> TRUE, data |-> << >>]
    ELSE IF r.json = "invalid" THEN [raised |-> TRUE, data |-> << >>]
    ELSE IF r.json = "empty" \/ r.json = "no_data"
         THEN [raised |-> TRUE, data |-> << >>]
    ELSE [raised |-> FALSE, data |-> r.data]

\* What the Telegram API call does: answers 200 with "ok": true, with
\* "ok": false, or without the field; answers a non-success status; fails in
\* the transport (connection error, timeout); or answers a body that is not JSON.
TransportOutcomes ==
    {"ok_true", "ok_false", "ok_missing", "http_error", "exception", "bad_json"}

\* send_telegram_message with the except clause narrowed to HTTP errors:
\* a transport failure or an unparseable answer escapes.
send_telegram_message_narrow_except(configured, t) ==
    IF ~configured THEN [raised |-> FALSE, value |-> FALSE]
    ELSE IF t \in {"exception", "bad_json"} THEN [raised |-> TRUE, value |-> FALSE]
    ELSE [raised |-> FALSE, value |-> (t = "ok_true")]

\* send_telegram_message reading a field the answer never has.
send_telegram_message_wrong_field(configured, t) ==
    [raised |-> FALSE, value |-> FALSE]

\* send_telegram_message: False without credentials; otherwise the "ok" field
\* of the answer (False when missing); every exception of the call is caught
\* and becomes False.
send_telegram_message(configured, t) ==
    IF ~configured THEN [raised |-> FALSE, value |-> FALSE]
    ELSE IF t = "http_error" \/ t = "exception" \/ t = "bad_json"
         THEN [raised |-> FALSE, value |-> FALSE]
    ELSE IF t = "ok_true" THEN [raised |-> FALSE, value |-> TRUE]
    ELSE [raised |-> FALSE, value |-> FALSE]

\* The bootstrap set with the lot filter dropped.
BootstrapLotsUnfiltered(ls) == { ls[i].lot : i \in DOMAIN ls }

\* {listing.get('lot') for listing in listings if listing.get('lot')}
BootstrapLots(ls) == { ls[i].lot : i \in { j \in DOMAIN ls : Truthy(ls[j].lot) } }

\* The delta with the membership test dropped.
NewListingsNoSeenTest(ls, seenset) ==
    SelectSeq(ls, LAMBDA l : Truthy(l.lot))

\* The delta built back to front.
RECURSIVE Reversed(_)
Reversed(s) == IF s = << >> THEN << >> ELSE Append(Reversed(Tail(s)), Head(s))

NewListingsReversed(ls, seenset) ==
    Reversed(SelectSeq(ls, LAMBDA l : Truthy(l.lot) /\ l.lot \notin seenset))

\* [l for l in listings if l.get('lot') and l.get('lot') not in seen_lots]
NewListings(ls, seenset) ==
    SelectSeq(ls, LAMBDA l : Truthy(l.lot) /\ l.lot \notin seenset)

\* The bulk add issued only for an empty set.
NeedsBootstrapSaddInverted(lots) == lots = {}

\* if seen_lots: the bulk add is issued only for a non-empty set.
NeedsBootstrapSadd(lots) == lots # {}

\* Whether run_check honours its dry_run argument: flask_app.py returns
\* 'dry_run' before the notify loop, toyota.py never reads the argument.
HonoursDryRun(p) == p = "lexus"

Saturate(n) == IF n < MaxCount THEN n + 1 ELSE n

\* The non-empty lot identifiers of a snapshot.
LotsOf(ls) == { l \in Lots : \E i \in DOMAIN ls : ls[i].lot = l }

\* The environment variables the two programs read or check.
EnvNames ==
    {"TELEGRAM_BOT_TOKEN", "TELEGRAM_CHAT_ID", "TELEGRAM_BOT_TOKEN__TOYOTA",
     "TELEGRAM_CHAT_ID__TOYOTA", "UPSTASH_REDIS_REST_URL", "UPSTASH_REDIS_REST_TOKEN"}

\* The variables a program reads at import time (os.getenv).
Reads(p) ==
    IF p = "lexus"
    THEN {"TELEGRAM_BOT_TOKEN", "TELEGRAM_CHAT_ID",
          "UPSTASH_REDIS_REST_URL", "UPSTASH_REDIS_REST_TOKEN"}
    ELSE {"TELEGRAM_BOT_TOKEN__TOYOTA", "TELEGRAM_CHAT_ID__TOYOTA",
          "UPSTASH_REDIS_REST_URL", "UPSTASH_REDIS_REST_TOKEN"}

\* The list named required in the program's __main__: the same in both files.
Required(p) ==
    {"TELEGRAM_BOT_TOKEN", "TELEGRAM_CHAT_ID",
     "UPSTASH_REDIS_REST_URL", "UPSTASH_REDIS_REST_TOKEN"}

\* missing = [k for k in required if not os.getenv(k)]
Missing(p, e) == Required(p) \ e

(***************************************************************************)
(* Strings of format_listing_message: sequences of characters.  The        *)
(* defaults 'N/A' and 'Unknown' are kept as one symbol each.               *)
(***************************************************************************)
Chars == {" ", "2", "N"}
Texts == UNION { [1..n -> Chars] : n \in 0..MaxNameLen }
NA == << "N/A" >>
Unknown == << "Unknown" >>

\* A key of the listing dict: missing, or present with a string.
Attrs == { [has |-> FALSE, text |-> << >>] } \cup { [has |-> TRUE, text |-> t] : t \in Texts }
ShortAttrs == { [has |-> FALSE, text |-> << >>], [has |-> TRUE, text |-> << >>],
                [has |-> TRUE, text |-> << "N" >>] }

ListingInputs == [name : Attrs, name_long : ShortAttrs, final_bid_formatted : ShortAttrs]

NoListing ==
    [name |-> [has |-> FALSE, text |-> << >>],
     name_long |-> [has |-> FALSE, text |-> << >>],
     final_bid_formatted |-> [has |-> FALSE, text |-> << >>]]

NoMessage == [done |-> FALSE]

\* listing.get(key, default)
Get(a, default) == IF a.has THEN a.text ELSE default

\* str.split(): the maximal runs of non-whitespace characters, in order.
RECURSIVE SplitAcc(_, _, _)
SplitAcc(s, cur, acc) ==
    IF s = << >>
    THEN IF cur = << >> THEN acc ELSE Append(acc, cur)
    ELSE IF Head(s) = " "
         THEN SplitAcc(Tail(s), << >>, IF cur = << >> THEN acc ELSE Append(acc, cur))
         ELSE SplitAcc(Tail(s), Append(cur, Head(s)), acc)

Split(s) == SplitAcc(s, << >>, << >>)

\* format_listing_message, with the parts of the text that depend on the
\* keys modelled here: the title (name_long or name), the year, and the
\* optional final-bid line.  split()[0] of a name without a token raises
\* IndexError.
format_listing_message(l) ==
    LET title == IF l.name_long.has /\ l.name_long.text # << >>
                 THEN l.name_long.text
                 ELSE Get(l.name, Unknown)
        named == l.name.has /\ l.name.text # << >>
        tokens == Split(Get(l.name, << >>))
    IN IF named /\ tokens = << >>
       THEN [done |-> TRUE, raised |-> TRUE, title |-> << >>, year |-> << >>,
             final_bid_line |-> FALSE]
       ELSE [done |-> TRUE, raised |-> FALSE, title |-> title,
             year |-> IF named THEN tokens[1] ELSE NA,
             final_bid_line |-> (l.final_bid_formatted.has
                                 /\ l.final_bid_formatted.text # << >>)]

\* A run of run_check that has not started.
NoRun(p) ==
    [pc |-> "idle", prof |-> p, dry_run |-> FALSE, listings |-> << >>,
     seen_lots |-> {}, new_listings |-> << >>, idx |-> 0, sent |-> 0,
     result |-> [reason |-> "none"], attempts |-> << >>, sadds |-> 0,
     seen0 |-> {}, flag0 |-> FALSE]

(***************************************************************************)
(* Initial states.  The store starts empty: no seen-set, no init-flag.     *)
(***************************************************************************)
RunInit(ps) ==
    /\ deployed = ps
    /\ seen = {}
    /\ initFlag = FALSE
    /\ pc = "idle"
    /\ prof \in ps
    /\ dry_run = FALSE
    /\ listings = << >>
    /\ seen_lots = {}
    /\ new_listings = << >>
    /\ idx = 0
    /\ sent = 0
    /\ result = [reason |-> "none"]
    /\ delivered = [l \in Lots |-> 0]
    /\ attempts = << >>
    /\ sadds = 0
    /\ seen0 = {}
    /\ flag0 = FALSE
    /\ failedLast = {}
    /\ bootstrapped = {}
    /\ addedBy = [p \in Profiles |-> {}]
    /\ late = {}
    /\ fetch_failed = FALSE

InitWith(ps) ==
    /\ RunInit(ps)
    /\ parked = NoRun(prof)
    /\ budget = -1
    /\ env = EnvNames
    /\ entry = [p \in Profiles |-> "none"]
    /\ listing_in = NoListing
    /\ message = NoMessage

\* One profile alone on its store: either program.
Init == \E p \in Profiles : InitWith({p})

\* Both programs deployed together: they read the same UPSTASH_REDIS_REST_URL
\* and use the same STORAGE_SEEN_KEY and STORAGE_INIT_KEY.
InitBoth == InitWith(Profiles)

(***************************************************************************)
(* run_check, one round trip at a time.                                    *)
(***************************************************************************)
\* The run returns res to its caller.
Return(res) ==
    /\ pc' = "idle"
    /\ result' = res

\* The except clause returns an empty result instead of re-raising.
RaiseSwallowed ==
    /\ pc' = "idle"
    /\ result' = [reason |-> "no_new_listings", sent |-> 0, total |-> 0]

\* An exception leaves run_check (logged and re-raised by its except clause).
Raise ==
    /\ pc' = "idle"
    /\ result' = [reason |-> "error"]

FailedLots(as) == { as[i].lot : i \in { j \in DOMAIN as : ~as[j].ok } }

\* A trigger calls run_check(dry_run=d) of profile p: check_endpoint with or
\* without dryRun, scheduled_check, or the __main__ of toyota.py.
Trigger(p, d) ==
    /\ pc = "idle"
    /\ p \in deployed
    /\ budget # 0
    /\ budget' = IF budget > 0 THEN budget - 1 ELSE budget
    /\ pc' = "exists"
    /\ prof' = p
    /\ dry_run' = d
    /\ listings' = << >>
    /\ seen_lots' = {}
    /\ new_listings' = << >>
    /\ idx' = 0
    /\ sent' = 0
    /\ result' = [reason |-> "running"]
    /\ attempts' = << >>
    /\ sadds' = 0
    /\ seen0' = seen
    /\ flag0' = initFlag
    /\ failedLast' = IF attempts # << >> THEN FailedLots(attempts) ELSE failedLast
    /\ fetch_failed' = FALSE
    /\ UNCHANGED << deployed, apart, store, delivered, bootstrapped, addedBy, late >>

\* is_init = redis.exists(STORAGE_INIT_KEY)
Exists(o) ==
    /\ pc = "exists"
    /\ IF o = "ok"
       THEN /\ pc' = IF initFlag THEN "fetch" ELSE "bootstrap_fetch"
            /\ UNCHANGED result
       ELSE Raise
    /\ UNCHANGED << deployed, apart, budget, store, prof, dry_run, locals, history,
                    fetch_failed >>

\* The bootstrap writes the init-flag before it fetches.
BootstrapFetchAfterSet(r) ==
    /\ pc = "bootstrap_fetch"
    /\ initFlag' = TRUE
    /\ LET f == fetch_listings(r) IN
       IF f.raised
       THEN /\ Raise
            /\ UNCHANGED << listings, seen_lots >>
       ELSE /\ listings' = f.data
            /\ seen_lots' = BootstrapLots(f.data)
            /\ pc' = IF NeedsBootstrapSadd(BootstrapLots(f.data))
                     THEN "bootstrap_sadd" ELSE "bootstrap_set"
            /\ UNCHANGED result
    /\ fetch_failed' = fetch_listings(r).raised
    /\ UNCHANGED << deployed, apart, budget, seen, prof, dry_run, new_listings, idx,
                    sent, delivered, attempts, sadds, seen0, flag0, failedLast,
                    bootstrapped, addedBy, late >>

\* Bootstrap branch: listings = fetch_listings(); seen_lots = {...}
BootstrapFetch(r) ==
    /\ pc = "bootstrap_fetch"
    /\ LET f == fetch_listings(r) IN
       IF f.raised
       THEN /\ Raise
            /\ UNCHANGED << listings, seen_lots >>
       ELSE /\ listings' = f.data
            /\ seen_lots' = BootstrapLots(f.data)
            /\ pc' = IF NeedsBootstrapSadd(BootstrapLots(f.data))
                     THEN "bootstrap_sadd" ELSE "bootstrap_set"
            /\ UNCHANGED result
    /\ late' = IF ~fetch_listings(r).raised /\ initFlag
               THEN late \cup (LotsOf(fetch_listings(r).data) \ seen)
               ELSE late
    /\ fetch_failed' = fetch_listings(r).raised
    /\ UNCHANGED << deployed, apart, budget, store, prof, dry_run, new_listings, idx,
                    sent, delivered, attempts, sadds, seen0, flag0, failedLast,
                    bootstrapped, addedBy >>

\* The bootstrap writes the set anew instead of adding to it.
BootstrapSaddReplaces(o) ==
    /\ pc = "bootstrap_sadd"
    /\ sadds' = sadds + 1
    /\ seen' = IF o = "error" THEN seen ELSE seen_lots
    /\ addedBy' = IF o = "error" THEN addedBy
                  ELSE [addedBy EXCEPT ![prof] = @ \cup seen_lots]
    /\ IF o = "ok"
       THEN /\ pc' = "bootstrap_set"
            /\ UNCHANGED result
       ELSE Raise
    /\ UNCHANGED << deployed, apart, budget, initFlag, prof, dry_run, locals,
                    delivered, attempts, seen0, flag0, failedLast, bootstrapped, late,
                    fetch_failed >>

\* The bootstrap sets the init-flag before it adds the baseline.
BootstrapSaddAfterFlag(o) ==
    /\ pc = "bootstrap_sadd"
    /\ sadds' = sadds + 1
    /\ initFlag' = TRUE
    /\ seen' = IF o = "error" THEN seen ELSE seen \cup seen_lots
    /\ addedBy' = IF o = "error" THEN addedBy
                  ELSE [addedBy EXCEPT ![prof] = @ \cup seen_lots]
    /\ IF o = "ok"
       THEN /\ pc' = "bootstrap_set"
            /\ UNCHANGED result
       ELSE Raise
    /\ UNCHANGED << deployed, apart, budget, prof, dry_run, locals,
                    delivered, attempts, seen0, flag0, failedLast, bootstrapped, late,
                    fetch_failed >>

\* redis.sadd(STORAGE_SEEN_KEY, *seen_lots)
BootstrapSadd(o) ==
    /\ pc = "bootstrap_sadd"
    /\ sadds' = sadds + 1
    /\ seen' = IF o = "error" THEN seen ELSE seen \cup seen_lots
    /\ addedBy' = IF o = "error" THEN addedBy
                  ELSE [addedBy EXCEPT ![prof] = @ \cup seen_lots]
    /\ IF o = "ok"
       THEN /\ pc' = "bootstrap_set"
            /\ UNCHANGED result
       ELSE Raise
    /\ UNCHANGED << deployed, apart, budget, initFlag, prof, dry_run, locals,
                    delivered, attempts, seen0, flag0, failedLast, bootstrapped, late,
                    fetch_failed >>

\* redis.set(STORAGE_INIT_KEY, '1'); return {'sent': 0, 'reason': 'bootstrap', ...}
BootstrapSet(o) ==
    /\ pc = "bootstrap_set"
    /\ initFlag' = IF o = "error" THEN initFlag ELSE TRUE
    /\ bootstrapped' = IF o = "error" THEN bootstrapped ELSE bootstrapped \cup {prof}
    /\ IF o = "ok"
       THEN Return([reason |-> "bootstrap", sent |-> 0, total |-> Len(listings)])
       ELSE Raise
    /\ UNCHANGED << deployed, apart, budget, seen, prof, dry_run, locals, delivered,
                    attempts, sadds, seen0, flag0, failedLast, addedBy, late, fetch_failed >>

\* Incremental branch: listings = fetch_listings()
Fetch(r) ==
    /\ pc = "fetch"
    /\ LET f == fetch_listings(r) IN
       IF f.raised
       THEN /\ Raise
            /\ UNCHANGED listings
       ELSE /\ listings' = f.data
            /\ pc' = "smembers"
            /\ UNCHANGED result
    /\ fetch_failed' = fetch_listings(r).raised
    /\ UNCHANGED << deployed, apart, budget, store, prof, dry_run, seen_lots,
                    new_listings, idx, sent, history >>

\* seen_lots = redis.smembers(STORAGE_SEEN_KEY); new_listings = [...]; the two
\* early returns; otherwise the notify loop is entered.
Smembers(o) ==
    /\ pc = "smembers"
    /\ IF o # "ok"
       THEN /\ Raise
            /\ UNCHANGED << seen_lots, new_listings, idx >>
       ELSE LET delta == NewListings(listings, seen) IN
            /\ seen_lots' = seen
            /\ new_listings' = delta
            /\ IF delta = << >>
               THEN /\ Return([reason |-> "no_new_listings", sent |-> 0,
                               total |-> Len(listings)])
                    /\ UNCHANGED idx
               ELSE IF dry_run /\ HonoursDryRun(prof)
               THEN /\ Return([reason |-> "dry_run", sent |-> 0,
                               new_count |-> Len(delta), total |-> Len(listings)])
                    /\ UNCHANGED idx
               ELSE /\ pc' = "send"
                    /\ idx' = 1
                    /\ UNCHANGED result
    /\ UNCHANGED << deployed, apart, budget, store, prof, dry_run, listings, sent, history,
                    fetch_failed >>

\* The loop's end reports the delta length as the number sent.
NextItemSentIsNewCount(n) ==
    IF idx < Len(new_listings)
    THEN /\ idx' = idx + 1
         /\ pc' = "send"
         /\ UNCHANGED result
    ELSE /\ Return([reason |-> "new_listings", sent |-> Len(new_listings),
                    new_count |-> Len(new_listings), total |-> Len(listings)])
         /\ UNCHANGED idx

\* The for loop moves to its next item, or ends and run_check returns.
NextItem(n) ==
    IF idx < Len(new_listings)
    THEN /\ idx' = idx + 1
         /\ pc' = "send"
         /\ UNCHANGED result
    ELSE /\ Return([reason |-> "new_listings", sent |-> n,
                    new_count |-> Len(new_listings), total |-> Len(listings)])
         /\ UNCHANGED idx

\* The lot is marked seen whatever the delivery returned.
AfterFailedDeliveryMarkSeen(n) ==
    /\ pc' = "sadd"
    /\ UNCHANGED << idx, result >>

\* What the loop does after send_telegram_message returned False: nothing,
\* the for statement takes the next item.
AfterFailedDelivery(n) == NextItem(n)

\* Loop body up to the delivery: lot = listing.get('lot'); skip when empty;
\* send_telegram_message(format_listing_message(listing)).  The credentials
\* are what the process read from its environment.
Send(configured, t) ==
    /\ pc = "send"
    /\ LET lot == new_listings[idx].lot
           r == send_telegram_message(configured, t)
       IN IF ~Truthy(lot)
          THEN /\ NextItem(sent)
               /\ UNCHANGED << delivered, attempts >>
          ELSE IF r.raised
          THEN /\ Raise
               /\ attempts' = Append(attempts, [lot |-> lot, ok |-> FALSE])
               /\ UNCHANGED << idx, delivered >>
          ELSE IF r.value
          THEN /\ pc' = "sadd"
               /\ attempts' = Append(attempts, [lot |-> lot, ok |-> TRUE])
               /\ delivered' = [delivered EXCEPT ![lot] = Saturate(@)]
               /\ UNCHANGED << idx, result >>
          ELSE /\ AfterFailedDelivery(sent)
               /\ attempts' = Append(attempts, [lot |-> lot, ok |-> FALSE])
               /\ UNCHANGED delivered
    /\ UNCHANGED << deployed, apart, budget, store, prof, dry_run, listings, seen_lots,
                    new_listings, sent, sadds, seen0, flag0, failedLast,
                    bootstrapped, addedBy, late, fetch_failed >>

\* The loop goes on to the next item when the SADD failed.
LoopSaddSwallowsError(o) ==
    /\ pc = "sadd"
    /\ sadds' = sadds + 1
    /\ seen' = IF o = "error" THEN seen ELSE seen \cup {new_listings[idx].lot}
    /\ addedBy' = IF o = "error" THEN addedBy
                  ELSE [addedBy EXCEPT ![prof] = @ \cup {new_listings[idx].lot}]
    /\ sent' = sent + 1
    /\ NextItem(sent + 1)
    /\ UNCHANGED << deployed, apart, budget, initFlag, prof, dry_run, listings,
                    seen_lots, new_listings, delivered, attempts, seen0, flag0,
                    failedLast, bootstrapped, late,
                    fetch_failed >>

\* After a successful delivery: redis.sadd(STORAGE_SEEN_KEY, lot); sent += 1;
\* time.sleep(0.5).
LoopSadd(o) ==
    /\ pc = "sadd"
    /\ sadds' = sadds + 1
    /\ seen' = IF o = "error" THEN seen ELSE seen \cup {new_listings[idx].lot}
    /\ addedBy' = IF o = "error" THEN addedBy
                  ELSE [addedBy EXCEPT ![prof] = @ \cup {new_listings[idx].lot}]
    /\ IF o = "ok"
       THEN /\ sent' = sent + 1
            /\ NextItem(sent + 1)
       ELSE /\ Raise
            /\ UNCHANGED << sent, idx >>
    /\ UNCHANGED << deployed, apart, budget, initFlag, prof, dry_run, listings,
                    seen_lots, new_listings, delivered, attempts, seen0, flag0,
                    failedLast, bootstrapped, late,
                    fetch_failed >>

(***************************************************************************)
(* The callers of run_check in flask_app.py, as functions of how the run   *)
(* ended.                                                                  *)
(***************************************************************************)
\* check_endpoint: jsonify({'ok': True, **result}), or on an exception
\* jsonify({'ok': False, 'error': str(e)}) with status 500.
check_endpoint(res) ==
    IF res.reason = "error"
    THEN [code |-> 500, ok |-> FALSE, body |-> "error"]
    ELSE [code |-> 200, ok |-> TRUE, body |-> res.reason]

\* scheduled_check: logs the result, or logs the exception; raises neither way.
scheduled_check(res) ==
    IF res.reason = "error"
    THEN [raised |-> FALSE, logged |-> "Failed"]
    ELSE [raised |-> FALSE, logged |-> "Completed"]

Next ==
    \/ \E p \in Profiles, d \in BOOLEAN : Trigger(p, d)
    \/ \E o \in ReadOutcomes : Exists(o)
    \/ \E r \in FetchResponses : BootstrapFetch(r)
    \/ \E o \in StoreOutcomes : BootstrapSadd(o)
    \/ \E o \in StoreOutcomes : BootstrapSet(o)
    \/ \E r \in FetchResponses : Fetch(r)
    \/ \E o \in ReadOutcomes : Smembers(o)
    \/ \E c \in BOOLEAN, t \in TransportOutcomes : Send(c, t)
    \/ \E o \in StoreOutcomes : LoopSadd(o)

Spec == Init /\ [][Next]_vars

SpecBoth == InitBoth /\ [][Next]_vars

(***************************************************************************)
(* Runs of flask_app.py under a scheduler that keeps firing and an         *)
(* environment whose calls eventually succeed.  The cron job starts a run  *)
(* with dry_run=False every 30 minutes.  Of the scheduled runs, some get   *)
(* an answer to EXISTS; of those, some fetch a snapshot that holds lot l;  *)
(* of those, some get an answer to SMEMBERS; the delivery for l, tried     *)
(* again and again, eventually succeeds; and a SADD, tried again and       *)
(* again, eventually succeeds.  Every call returns or times out, so a run  *)
(* in progress always takes its next step.                                 *)
(***************************************************************************)
InitLive == InitWith({"lexus"})

FairnessFor(l) ==
    /\ WF_vars(Next)
    /\ SF_vars(Trigger("lexus", FALSE))
    /\ SF_vars(~dry_run /\ Exists("ok"))
    /\ SF_vars(~dry_run /\ \E r \in FetchResponses :
                              l \in LotsOf(fetch_listings(r).data) /\ Fetch(r))
    /\ SF_vars(~dry_run /\ l \in LotsOf(listings) /\ Smembers("ok"))
    /\ SF_vars(pc = "send" /\ new_listings[idx].lot = l /\ Send(TRUE, "ok_true"))
    /\ SF_vars(LoopSadd("ok"))

SpecLive == InitLive /\ [][Next]_vars /\ FairnessFor("A")

(***************************************************************************)
(* Overlapping runs.  flask_app.py runs scheduled_check on the scheduler's *)
(* thread and check_endpoint on a request thread, with no lock between     *)
(* them: two runs of run_check interleave at every round trip.  The run    *)
(* not taking the step is kept in parked.                                  *)
(***************************************************************************)
InitOverlap ==
    /\ RunInit({"lexus"})
    /\ parked = NoRun("lexus")
    /\ budget = MaxOverlapRuns
    /\ env = EnvNames
    /\ entry = [p \in Profiles |-> "none"]
    /\ listing_in = NoListing
    /\ message = NoMessage

\* The thread of the other run is scheduled: the two runs change places.
Switch ==
    /\ pc # "idle" \/ parked.pc # "idle"
    /\ parked' = [pc |-> pc, prof |-> prof, dry_run |-> dry_run,
                  listings |-> listings, seen_lots |-> seen_lots,
                  new_listings |-> new_listings, idx |-> idx, sent |-> sent,
                  result |-> result, attempts |-> attempts, sadds |-> sadds,
                  seen0 |-> seen0, flag0 |-> flag0]
    /\ pc' = parked.pc
    /\ prof' = parked.prof
    /\ dry_run' = parked.dry_run
    /\ listings' = parked.listings
    /\ seen_lots' = parked.seen_lots
    /\ new_listings' = parked.new_listings
    /\ idx' = parked.idx
    /\ sent' = parked.sent
    /\ result' = parked.result
    /\ attempts' = parked.attempts
    /\ sadds' = parked.sadds
    /\ seen0' = parked.seen0
    /\ flag0' = parked.flag0
    /\ UNCHANGED << deployed, store, delivered, failedLast, bootstrapped, addedBy,
                    late, fetch_failed, budget, env, entry, listing_in, message >>

NextOverlap ==
    \/ Next
    \/ Switch

SpecOverlap == InitOverlap /\ [][NextOverlap]_vars

(***************************************************************************)
(* Process start.  Each program reads its settings from the environment    *)
(* at import time; its __main__ then checks the required list and exits    *)
(* when one is missing, or goes on to its first check (toyota.py calls     *)
(* run_check, flask_app.py starts the scheduler and the server).           *)
(***************************************************************************)
runstate == << deployed, store, pc, prof, dry_run, locals, result, history,
               fetch_failed, budget >>

InitStartup ==
    /\ RunInit({"lexus"})
    /\ parked = NoRun("lexus")
    /\ budget = -1
    /\ env \in SUBSET EnvNames
    /\ entry = [p \in Profiles |-> "none"]
    /\ listing_in = NoListing
    /\ message = NoMessage

\* if __name__ == '__main__': the check of the environment.
Main(p) ==
    /\ entry[p] = "none"
    /\ entry' = [entry EXCEPT ![p] = IF Missing(p, env) # {} THEN "exited"
                                     ELSE "started"]
    /\ UNCHANGED << runstate, parked, env, listing_in, message >>

\* The started program runs a check.
FirstCheck(p) ==
    /\ entry[p] = "started"
    /\ entry' = [entry EXCEPT ![p] = "checked"]
    /\ UNCHANGED << runstate, parked, env, listing_in, message >>

NextStartup ==
    \/ \E p \in Profiles : Main(p)
    \/ \E p \in Profiles : FirstCheck(p)

SpecStartup == InitStartup /\ [][NextStartup]_vars

(***************************************************************************)
(* format_listing_message applied to one listing.                          *)
(***************************************************************************)
InitFormat ==
    /\ RunInit({"lexus"})
    /\ parked = NoRun("lexus")
    /\ budget = -1
    /\ env = EnvNames
    /\ entry = [p \in Profiles |-> "none"]
    /\ listing_in \in ListingInputs
    /\ message = NoMessage

FormatListing ==
    /\ ~message.done
    /\ message' = format_listing_message(listing_in)
    /\ UNCHANGED << runstate, parked, env, entry, listing_in >>

NextFormat == FormatListing

SpecFormat == InitFormat /\ [][NextFormat]_vars

(***************************************************************************)
(* Vocabulary of the properties.                                           *)
(***************************************************************************)
\* The lots of the current run's delivery attempts that succeeded / failed.
DeliveredNow == { l \in Lots : \E i \in DOMAIN attempts : attempts[i].lot = l /\ attempts[i].ok }
FailedNow == { l \in Lots : \E i \in DOMAIN attempts : attempts[i].lot = l /\ ~attempts[i].ok }

\* The run returned a result (it did not raise, and is not still running).
Completed == pc = "idle" /\ result.reason \in {"bootstrap", "no_new_listings", "dry_run", "new_listings"}

\* The current run took the incremental branch and has computed its delta.
DeltaComputed ==
    \/ pc \in {"send", "sadd"}
    \/ attempts # << >>
    \/ (pc = "idle" /\ result.reason \in {"no_new_listings", "dry_run", "new_listings"})

\* s is a subsequence of t: its items are items of t, in t's order.
IsSubsequence(s, t) ==
    \E f \in [DOMAIN s -> DOMAIN t] :
        /\ \A i \in DOMAIN s : s[i] = t[f[i]]
        /\ \A i, j \in DOMAIN s : i < j => f[i] < f[j]

(***************************************************************************)
(* C1.  Over any sequence of runs of one profile, whatever the snapshots,  *)
(* delivery outcomes and store failures, no lot identifier is successfully *)
(* delivered more than once.                                               *)
(* Fails on the code: a delivery that succeeded is followed by a SADD that *)
(* fails, the run aborts with the lot unrecorded, the next run delivers it *)
(* again.                                                                  *)
(***************************************************************************)
C1_NoLotDeliveredTwice == \A l \in Lots : delivered[l] <= 1

(***************************************************************************)
(* C2.  Dry-run purity: a run started with dry_run=True issues no SADD and *)
(* attempts no delivery, whatever the store state and the snapshot, in     *)
(* both profiles.                                                          *)
(* Fails on the code: the bootstrap branch comes before any look at        *)
(* dry_run, and toyota.py never reads dry_run at all.                      *)
(***************************************************************************)
C2_DryRunPurity == dry_run => (sadds = 0 /\ attempts = << >>)

(***************************************************************************)
(* C3.  Bootstrap, as claimed: a run that starts with the init-flag absent *)
(* and completes returns reason bootstrap with sent 0, attempts no         *)
(* delivery, and leaves the seen-set holding exactly the non-empty lot ids *)
(* of its snapshot.                                                        *)
(***************************************************************************)
C3_BootstrapExactlySnapshot ==
    (Completed /\ ~flag0) =>
        /\ result.reason = "bootstrap"
        /\ result.sent = 0
        /\ attempts = << >>
        /\ seen = LotsOf(listings)

(***************************************************************************)
(* C3, amended: a run that starts with the init-flag absent and completes  *)
(* returns reason bootstrap with sent 0, attempts no delivery, and leaves  *)
(* the seen-set equal to what it held when the run started united with     *)
(* exactly the non-empty lot ids of its snapshot.                          *)
(***************************************************************************)
C3_BootstrapAddsSnapshot ==
    (Completed /\ ~flag0) =>
        /\ result.reason = "bootstrap"
        /\ result.sent = 0
        /\ result.total = Len(listings)
        /\ attempts = << >>
        /\ seen = seen0 \cup LotsOf(listings)
        /\ initFlag

\* A bootstrap completed on a seen-set that an aborted bootstrap had filled.
C3_Witness ==
    /\ Completed /\ ~flag0
    /\ result.reason = "bootstrap"
    /\ LotsOf(listings) # {}
    /\ seen0 # {}
    /\ seen # LotsOf(listings)

(***************************************************************************)
(* C4.  Partial-failure retention: a lot whose delivery failed in a run is *)
(* not in the seen-set when that run ends, and the next run that computes  *)
(* a delta from a snapshot still holding the lot has it in its delta.      *)
(***************************************************************************)
C4_PartialFailureRetention ==
    /\ pc = "idle" => FailedNow \cap seen = {}
    /\ DeltaComputed =>
           \A l \in failedLast : l \in LotsOf(listings) => l \in LotsOf(new_listings)

\* A run retries, in its delta, a lot whose delivery failed in the run before.
C4_Witness ==
    /\ pc = "send"
    /\ attempts = << >>
    /\ failedLast # {}
    /\ new_listings[idx].lot \in failedLast

(***************************************************************************)
(* C5.  Within one incremental run, a listing whose lot id is in the       *)
(* seen-set that the run read is never in the delta and never causes a     *)
(* delivery attempt, whatever its other attributes.                        *)
(***************************************************************************)
C5_SeenNeverInDelta ==
    DeltaComputed =>
        /\ \A i \in DOMAIN listings :
               listings[i].lot \in seen_lots =>
                   /\ \A j \in DOMAIN new_listings : new_listings[j].lot # listings[i].lot
                   /\ \A j \in DOMAIN attempts : attempts[j].lot # listings[i].lot
        /\ \A j \in DOMAIN attempts : attempts[j].lot \notin seen_lots

\* A run notifies for a new lot while its snapshot also holds a seen lot,
\* whose status is not the one of the listings usually watched.
C5_Witness ==
    /\ pc = "idle" /\ result.reason = "new_listings"
    /\ attempts # << >>
    /\ \E i \in DOMAIN listings :
           listings[i].lot \in seen_lots /\ listings[i].search_status = "Sold"

(***************************************************************************)
(* C6.  Empty-lot exclusion: the seen-set never holds an empty or absent   *)
(* lot identifier, and no delivery is attempted for a listing whose lot is *)
(* empty or missing, in bootstrap and in incremental runs.                 *)
(***************************************************************************)
C6_EmptyLotExclusion ==
    /\ "" \notin seen
    /\ None \notin seen
    /\ \A i \in DOMAIN attempts : attempts[i].lot # "" /\ attempts[i].lot # None
    /\ \A i \in DOMAIN new_listings : new_listings[i].lot # "" /\ new_listings[i].lot # None

\* A bootstrap has added the lots of a snapshot that holds a listing without
\* a lot or with an empty lot, or an incremental run has notified for
\* the one new lot of such a snapshot.
C6_Witness ==
    /\ \E i \in DOMAIN listings : listings[i].lot \in {"", None}
    /\ \/ pc = "bootstrap_set" /\ seen # {} /\ sadds = 1
       \/ pc = "idle" /\ result.reason = "new_listings" /\ DeliveredNow # {}

(***************************************************************************)
(* C7.  Accounting: a completed incremental non-dry run with a non-empty   *)
(* delta returns reason new_listings, new_count the delta length, sent the *)
(* number of delta items whose delivery succeeded, and leaves the seen-set *)
(* equal to the one it read united with exactly the lots of those items.   *)
(***************************************************************************)
C7_Accounting ==
    /\ (Completed /\ flag0 /\ ~dry_run /\ new_listings # << >>) =>
           result.reason = "new_listings"
    /\ (Completed /\ result.reason = "new_listings") =>
           /\ new_listings # << >>
           /\ result.new_count = Len(new_listings)
           /\ result.total = Len(listings)
           /\ result.sent = Cardinality({ i \in DOMAIN attempts : attempts[i].ok })
           /\ seen = seen_lots \cup DeliveredNow
           /\ seen_lots = seen0

\* A run with one delivery that succeeded and one that failed has returned.
C7_Witness ==
    /\ Completed /\ result.reason = "new_listings"
    /\ ~dry_run
    /\ DeliveredNow # {}
    /\ FailedNow # {}

(***************************************************************************)
(* C8.  Ordering: the delta is a subsequence of the fetched snapshot, and  *)
(* the delivery attempts of a run are made in the delta's order.           *)
(***************************************************************************)
C8_Ordering ==
    /\ IsSubsequence(new_listings, listings)
    /\ Len(attempts) <= Len(new_listings)
    /\ \A i \in DOMAIN attempts : attempts[i].lot = new_listings[i].lot
    /\ pc = "send" => idx = Len(attempts) + 1

\* A run has attempted two deliveries.
C8_Witness ==
    /\ Len(attempts) >= 2
    /\ attempts[1].lot # attempts[2].lot

C10_OwnBootstrapOnce ==
    /\ pc \in {"fetch", "smembers", "send", "sadd"} => prof \in bootstrapped
    /\ pc \in {"bootstrap_fetch", "bootstrap_sadd", "bootstrap_set"} =>
           prof \notin bootstrapped
    /\ bootstrapped # {} => initFlag

(***************************************************************************)
(* C11.  Profile isolation: each profile has its own seen-set and its own  *)
(* init-flag, so the seen-set a profile reads holds only lots its own runs *)
(* added, and the init-flag a profile reads is set only by its own         *)
(* bootstrap.                                                              *)
(* Fails on the code with both profiles deployed: flask_app.py and         *)
(* toyota.py name the same two keys in the same store.                     *)
(***************************************************************************)
C11_ProfileIsolation ==
    \A p \in deployed :
        /\ seen \subseteq addedBy[p]
        /\ initFlag => p \in bootstrapped

(***************************************************************************)
(* C12.  Overlapping runs lose nothing: however the steps of two runs of   *)
(* one profile interleave, a lot that is first fetched after the profile   *)
(* became INITIALIZED is never in the seen-set without at least one        *)
(* successful delivery for it.                                             *)
(* Fails on the code: two runs both read the init-flag as absent; one      *)
(* completes its bootstrap; the other then fetches a snapshot with a new   *)
(* lot and bulk-adds it as baseline, so the lot is never notified.         *)
(***************************************************************************)
C12_OverlapLosesNothing == \A l \in late \cap seen : delivered[l] >= 1

FailingCall ==
    \/ \E o \in ReadOutcomes \ {"ok"} : Exists(o) \/ Smembers(o)
    \/ \E o \in StoreOutcomes \ {"ok"} : BootstrapSadd(o) \/ BootstrapSet(o) \/ LoopSadd(o)
    \/ \E r \in FetchResponses :
           fetch_listings(r).raised /\ (BootstrapFetch(r) \/ Fetch(r))

C14_ErrorPropagation ==
    /\ [][FailingCall =>
             /\ pc' = "idle"
             /\ result'.reason = "error"
             /\ check_endpoint(result') = [code |-> 500, ok |-> FALSE, body |-> "error"]
             /\ ~scheduled_check(result').raised
             /\ scheduled_check(result').logged = "Failed"]_vars
    /\ [](pc = "idle" /\ result.reason = "error" =>
             \A p \in deployed : ENABLED Trigger(p, FALSE))
    /\ [](pc = "idle" /\ result.reason # "error" =>
             check_endpoint(result).code = 200 /\ check_endpoint(result).ok)

\* A run was aborted by a store failure inside the notify loop.
C14_Witness ==
    /\ pc = "idle"
    /\ result.reason = "error"
    /\ attempts # << >>
    /\ check_endpoint(result).code = 500

(***************************************************************************)
(* C15.  The seen-set grows monotonically: after every step of every run   *)
(* (bootstrap, incremental, dry-run, aborted) it is a superset of what it  *)
(* was before the step.                                                    *)
(***************************************************************************)
C15_SeenMonotonic == [][seen \subseteq seen']_vars

\* A run has added to a seen-set that was not empty.
C15_Witness ==
    /\ pc = "idle"
    /\ seen0 # {}
    /\ seen # seen0

(***************************************************************************)
(* C16.  An incremental run in which every listing with a non-empty lot is *)
(* already in the seen-set returns no_new_listings with sent 0, attempts   *)
(* no delivery and leaves seen-set and init-flag as they were, with or     *)
(* without dry_run.                                                        *)
(***************************************************************************)
C16_NoNewListings ==
    (Completed /\ flag0 /\ LotsOf(listings) \subseteq seen0) =>
        /\ result.reason = "no_new_listings"
        /\ result.sent = 0
        /\ result.total = Len(listings)
        /\ new_listings = << >>
        /\ attempts = << >>
        /\ sadds = 0
        /\ seen = seen0
        /\ initFlag = flag0

\* A dry run and a snapshot whose only lots are seen ones.
C16_Witness ==
    /\ Completed /\ flag0 /\ dry_run
    /\ LotsOf(listings) # {}
    /\ LotsOf(listings) \subseteq seen0
    /\ result.reason = "no_new_listings"

(***************************************************************************)
(* C17.  Startup configuration check: a program whose environment lacks a  *)
(* setting that its run reads exits before any check runs; so no check     *)
(* runs with a setting missing.                                            *)
(* Fails on the code: toyota.py reads TELEGRAM_BOT_TOKEN__TOYOTA and       *)
(* TELEGRAM_CHAT_ID__TOYOTA but its __main__ checks TELEGRAM_BOT_TOKEN and *)
(* TELEGRAM_CHAT_ID.                                                       *)
(***************************************************************************)
C17_NoCheckWithMissingSetting ==
    \A p \in Profiles :
        entry[p] = "checked" => Reads(p) \subseteq env

(***************************************************************************)
(* C18.  format_listing_message is total: whatever the listing (each key   *)
(* missing, empty, whitespace-only or a normal string) it returns a text,  *)
(* and the year shown is the first whitespace-delimited token of name when *)
(* there is one and the not-available marker otherwise.                    *)
(* Fails on the code: a name of whitespace only is truthy and its split()  *)
(* is empty, so split()[0] raises IndexError.                              *)
(***************************************************************************)
\* The first maximal run of non-space characters of s, or the marker.
FirstToken(s) ==
    LET solid == { i \in DOMAIN s : s[i] # " " } IN
    IF solid = {} THEN NA
    ELSE LET a == CHOOSE i \in solid : \A j \in solid : i <= j
             b == CHOOSE i \in a..Len(s) :
                      /\ \A j \in a..i : s[j] # " "
                      /\ i = Len(s) \/ s[i + 1] = " "
         IN SubSeq(s, a, b)

C18_FormatTotal ==
    message.done =>
        /\ ~message.raised
        /\ message.year = FirstToken(Get(listing_in.name, << >>))

(***************************************************************************)
(* C19.  Bootstrap commit order: the bulk add is done before the init-flag *)
(* is set, so the step that sets the flag finds the snapshot's lots in the *)
(* seen-set (and no step removes them afterwards).  The add itself, failed *)
(* or not, leaves the flag as it was; a run that found the flag absent     *)
(* only bootstraps: it computes no delta and attempts no delivery.         *)
(***************************************************************************)
BootstrapPcs == {"exists", "bootstrap_fetch", "bootstrap_sadd", "bootstrap_set"}

C19_BootstrapCommitOrder ==
    /\ [][ (~initFlag /\ initFlag') => LotsOf(listings) \subseteq seen' ]_vars
    /\ [][ initFlag => (initFlag' /\ seen \subseteq seen') ]_vars
    /\ [][ pc = "bootstrap_sadd" => initFlag' = initFlag ]_vars
    /\ [](~flag0 => /\ attempts = << >>
                    /\ new_listings = << >>
                    /\ pc \in BootstrapPcs \cup {"idle"}
                    /\ Completed => result.reason = "bootstrap")

\* A bootstrap completes after an earlier one was aborted between its add
\* and its flag write: it found lots in the set and no flag.
C19_Witness ==
    /\ Completed
    /\ result.reason = "bootstrap"
    /\ ~flag0
    /\ seen0 # {}
    /\ initFlag
    /\ LotsOf(listings) # {}
    /\ LotsOf(listings) \subseteq seen

(***************************************************************************)
(* C20.  Per-item commit: the SADD of a delivered lot is issued before the *)
(* next delivery attempt.  At every point of a run, also of one aborted by *)
(* a store failure in the loop, at most one lot the run delivered is       *)
(* missing from the seen-set, and none is when a delivery is about to be   *)
(* attempted.                                                              *)
(***************************************************************************)
C20_PerItemCommit ==
    /\ Cardinality(DeliveredNow \ seen) <= 1
    /\ pc = "send" => DeliveredNow \subseteq seen
    /\ pc = "sadd" => DeliveredNow \ seen \subseteq {new_listings[idx].lot}

\* A run aborted by a failed SADD after it had delivered and recorded an
\* earlier lot: one delivered lot is missing.
C20_Witness ==
    /\ pc = "idle"
    /\ result.reason = "error"
    /\ Cardinality(DeliveredNow) = 2
    /\ Cardinality(DeliveredNow \ seen) = 1

(***************************************************************************)
(* C21.  A run whose fetch fails changes nothing.  In the bootstrap branch *)
(* and in the incremental branch alike the fetch comes before every write  *)
(* to the store and every delivery: up to and including the fetch the      *)
(* seen-set and the init-flag are as the run found them and nothing has    *)
(* been sent, and a run that fetch_listings aborted ends with the error,   *)
(* the store as it was and no notification.                                *)
(***************************************************************************)
NothingChanged ==
    /\ seen = seen0
    /\ initFlag = flag0
    /\ attempts = << >>
    /\ sadds = 0

C21_FailedFetchChangesNothing ==
    /\ pc \in {"exists", "bootstrap_fetch", "fetch"} => NothingChanged
    /\ fetch_failed => /\ pc = "idle"
                       /\ result.reason = "error"
                       /\ NothingChanged

\* An incremental run on a store that holds lots was aborted by its fetch.
C21_Witness ==
    /\ fetch_failed
    /\ flag0
    /\ seen0 # {}
    /\ pc = "idle"

=============================================================================
